---- MODULE Spec2Model ----
(***************************************************************************)
(* Model of trader/okx_trader.go: the OkxTrader gateway.                   *)
(*                                                                         *)
(* Callers (goroutines) run the gateway's methods step by step; a step is  *)
(* one lock operation, one exchange call, or the code between two of them. *)
(* The exchange client (t.client.Rest...) is an external collaborator: its *)
(* answers are drawn from bounded sets.  Quantities (float64) are counted  *)
(* in units of 10^-4, lot sizes in units of 10^-6 (the digits of "%f").    *)
(***************************************************************************)
EXTENDS Integers, Sequences, FiniteSets, TLC

\* ------------------------------------------------------------ constants
TTL == 15
Cooldown == 5
OkCode == 0
LeverageOkCode == 200
DefaultPrecision == 3
FallbackDigits == 3

\* ------------------------------------------------------------ bounds
MaxTime == 15
TickStep == 5
MaxLev == 2
QuantityUnit == 4

Procs == {1, 2}
Symbols == {"BTC-USDT-SWAP", "SWAP"}
InstTypes == {"SWAP", "FUTURES"}
RejectCode == OkCode + 1
Codes == {OkCode, RejectCode, LeverageOkCode}
Levers == 0..MaxLev
NilErr == "nil"
TransportErr == "transport"

\* ------------------------------------------------------------ strconv
Digit(c) ==
  CASE c = "0" -> 0 [] c = "1" -> 1 [] c = "2" -> 2 [] c = "3" -> 3
    [] c = "4" -> 4 [] c = "5" -> 5 [] c = "6" -> 6 [] c = "7" -> 7
    [] c = "8" -> 8 [] c = "9" -> 9 [] OTHER -> 0 - 1

RECURSIVE DigitsValue(_)
DigitsValue(s) ==
  IF s = <<>> THEN 0
  ELSE 10 * DigitsValue(SubSeq(s, 1, Len(s) - 1)) + Digit(s[Len(s)])

\* strconv.ParseFloat(s, 64) with its error dropped: 0 for a string that is
\* no number (the strings of the model are unsigned whole numbers or junk).
ParseFloat(s) ==
  IF s = <<>> \/ \E i \in 1..Len(s) : Digit(s[i]) < 0 THEN 0 ELSE DigitsValue(s)

\* ------------------------------------------------------------ exchange data
EqStrs == {<<"7">>, <<"1", "2">>}
Accounts == [TotalEq : EqStrs, AvailEq : {<<"5">>}, Upl : {<<"x">>}]

\* A Go slice: nil, or a (possibly empty) list.
NilList == [nil |-> TRUE, items |-> <<>>]
List(s) == [nil |-> FALSE, items |-> s]

\* The answers to a balance query: an error, or a status code with the list
\* of accounts (no list, an empty one, or one account).
BalanceResponses ==
  {[err |-> TRUE, Code |-> OkCode, Balances |-> NilList]} \cup
  {[err |-> FALSE, Code |-> c, Balances |-> b] :
     c \in {OkCode, RejectCode},
     b \in {NilList, List(<<>>)} \cup {List(<<a>>) : a \in Accounts}}

PosQty == 12346
\* What the exchange may report for one position: one without quantity, a
\* long one, a short one (its quantity reported negative, or positive), and
\* one of another instrument type.
PositionShapes ==
  { [InstType |-> "SWAP", InstID |-> "BTC-USDT-SWAP", Pos |-> 0, PosSide |-> "long"],
    [InstType |-> "SWAP", InstID |-> "BTC-USDT-SWAP", Pos |-> PosQty, PosSide |-> "long"],
    [InstType |-> "SWAP", InstID |-> "BTC-USDT-SWAP", Pos |-> 0 - PosQty, PosSide |-> "short"],
    [InstType |-> "SWAP", InstID |-> "BTC-USDT-SWAP", Pos |-> PosQty, PosSide |-> "short"],
    [InstType |-> "FUTURES", InstID |-> "BTC-USD-FUT", Pos |-> 0 - PosQty, PosSide |-> "short"] }
PositionLists ==
  {<<>>} \cup {<<a>> : a \in PositionShapes}
         \cup {<<a, b>> : a \in PositionShapes, b \in PositionShapes}

\* ------------------------------------------------------------ state
VARIABLES
  now,                  \* wall clock (seconds)
  cachedBalance,        \* t.cachedBalance
  balanceCacheTime,     \* t.balanceCacheTime
  balanceCacheMutex,    \* t.balanceCacheMutex
  cachedPositions,      \* t.cachedPositions (nil is the empty list)
  positionsCacheTime,   \* t.positionsCacheTime
  positionsCacheMutex,  \* t.positionsCacheMutex
  exLever,              \* leverage per instrument, on the exchange
  exPositions,          \* the account's positions, on the exchange
  pc,                   \* where each caller is
  op,                   \* the method each caller runs, with its arguments
  lcl,                  \* the local variables of each caller
  calls,                \* the exchange calls each caller issued in its method
  out,                  \* what the method returned
  hist                  \* history of each caller, for stating properties

vars == <<now, cachedBalance, balanceCacheTime, balanceCacheMutex,
          cachedPositions, positionsCacheTime, positionsCacheMutex,
          exLever, exPositions, pc, op, lcl, calls, out, hist>>

cacheVars == <<cachedBalance, balanceCacheTime, cachedPositions, positionsCacheTime>>
lockVars == <<balanceCacheMutex, positionsCacheMutex>>
exVars == <<exLever, exPositions>>

\* time.Time{} : further in the past than any cache duration.
ZeroTime == 0 - (TTL + 1)
NilBalance == [nil |-> TRUE, totalWalletBalance |-> 0, availableBalance |-> 0,
               totalUnrealizedProfit |-> 0]
FreeMutex == [readers |-> {}, writer |-> 0]

NoOp == [name |-> "none", symbol |-> "", quantity |-> 0, leverage |-> 0,
         positionSide |-> "", price |-> 0]
NoLcl == [cont |-> "top", balance |-> NilBalance, positions |-> <<>>,
          err |-> NilErr, quantity |-> 0, qstr |-> <<>>, ferr |-> NilErr,
          orders |-> <<>>, status |-> 0, wakeAt |-> 0]
NoOut == [kind |-> "none", hit |-> FALSE, err |-> NilErr, balance |-> NilBalance,
          positions |-> <<>>, orderId |-> 0, symbol |-> "", status |-> 0]
NoPrev == [same |-> FALSE, changes |-> 0, sleeps |-> 0]
NoHist == [fresh |-> FALSE, overwritten |-> FALSE, sameAsSeen |-> FALSE,
           stored |-> FALSE, sleeps |-> 0, snapshot |-> <<>>, readErr |-> NilErr,
           calledAt |-> 0, prev |-> NoPrev]

Init ==
  /\ now = 0
  /\ cachedBalance = NilBalance
  /\ balanceCacheTime = ZeroTime
  /\ balanceCacheMutex = FreeMutex
  /\ cachedPositions = <<>>
  /\ positionsCacheTime = ZeroTime
  /\ positionsCacheMutex = FreeMutex
  /\ exLever = [s \in Symbols |-> 1]
  /\ exPositions \in PositionLists
  /\ pc = [p \in Procs |-> "idle"]
  /\ op = [p \in Procs |-> NoOp]
  /\ lcl = [p \in Procs |-> NoLcl]
  /\ calls = [p \in Procs |-> <<>>]
  /\ out = [p \in Procs |-> NoOut]
  /\ hist = [p \in Procs |-> NoHist]

\* ------------------------------------------------------------ helpers
\* sync.RWMutex
CanRLock(m) == m.writer = 0
CanLock(m) == m.writer = 0 /\ m.readers = {}
RLock(m, p) == [m EXCEPT !.readers = @ \cup {p}]
\* An RUnlock that leaves the caller among the readers.
RUnlockKept(m, p) == m
RUnlock(m, p) == [m EXCEPT !.readers = @ \ {p}]
Lock(m, p) == [m EXCEPT !.writer = p]
Unlock(m) == [m EXCEPT !.writer = 0]

\* Whether the exchange carried a call out: it answered, with the code 0 that
\* every other check of the file takes for success.
ExOk(r) == ~r.err /\ r.Code = OkCode

Responses == {[err |-> TRUE, Code |-> OkCode]} \cup {[err |-> FALSE, Code |-> c] : c \in Codes}

\* MgnMode (lines 96, 221, 322) and TdMode (lines 116, 384, 428) of a request.
MarginMode(api) ==
  IF api \in {"SetLeverage", "PlaceOrder", "ClosePosition"} THEN "cross" ELSE ""

\* One exchange call, as logged.
CallRec(api, inst, side, posSide, num, batch, r, ok) ==
  [api |-> api, InstID |-> inst, Side |-> side, PosSide |-> posSide,
   MgnMode |-> MarginMode(api), num |-> num, batch |-> batch, attach |-> <<>>,
   ans |-> r, ok |-> ok]

CountCalls(log, api) == Cardinality({i \in 1..Len(log) : log[i].api = api})

\* What a method that begins keeps of the method the caller ran before it:
\* whether that was the same method with the same arguments and returned
\* nil, and the leverage changes and cooldown waits it made.
PrevOf(p, o) ==
  IF o.name = "SetLeverage" /\ op[p] = o /\ out[p].kind = "ok"
  THEN [same |-> TRUE, changes |-> CountCalls(calls[p], "SetLeverage"),
        sleeps |-> hist[p].sleeps]
  ELSE NoPrev

\* A caller enters a method.
Begin(p, o, first, cont) ==
  /\ pc[p] = "idle"
  /\ pc' = [pc EXCEPT ![p] = first]
  /\ op' = [op EXCEPT ![p] = o]
  /\ lcl' = [lcl EXCEPT ![p] = [NoLcl EXCEPT !.cont = cont, !.quantity = o.quantity]]
  /\ calls' = [calls EXCEPT ![p] = <<>>]
  /\ out' = [out EXCEPT ![p] = NoOut]
  /\ hist' = [hist EXCEPT ![p] = [NoHist EXCEPT !.prev = PrevOf(p, o)]]

ValueOut(kind, e) == [NoOut EXCEPT !.kind = kind, !.err = e]

\* ------------------------------------------------------------ clock
Tick ==
  /\ now + TickStep <= MaxTime
  /\ now' = now + TickStep
  /\ UNCHANGED <<cacheVars, lockVars, exVars, pc, op, lcl, calls, out, hist>>

\* ------------------------------------------------------------ GetBalance
\* line 53: the cached balance may be returned
BalanceCacheValid(cached, cacheTime, t) == ~cached.nil /\ t - cacheTime < TTL

\* lines 68-73: the map built from the first account of the answer
BalanceResult(a) ==
  [nil |-> FALSE,
   totalWalletBalance |-> ParseFloat(a.TotalEq),
   availableBalance |-> ParseFloat(a.AvailEq),
   totalUnrealizedProfit |-> ParseFloat(a.Upl)]

\* line 64: the answer is refused
BalanceFetchFailed(r) == r.err \/ r.Balances.nil

GetBalance(p) ==
  /\ Begin(p, [NoOp EXCEPT !.name = "GetBalance"], "gb_rlock", "top")
  /\ UNCHANGED <<now, cacheVars, lockVars, exVars>>

BalanceRLock(p) ==
  /\ pc[p] = "gb_rlock"
  /\ CanRLock(balanceCacheMutex)
  /\ balanceCacheMutex' = RLock(balanceCacheMutex, p)
  /\ pc' = [pc EXCEPT ![p] = "gb_check"]
  /\ UNCHANGED <<now, cacheVars, positionsCacheMutex, exVars, op, lcl, calls, out, hist>>

\* lines 53-59
BalanceCheck(p) ==
  /\ pc[p] = "gb_check"
  /\ LET valid == BalanceCacheValid(cachedBalance, balanceCacheTime, now) IN
       /\ pc' = [pc EXCEPT ![p] = IF valid THEN "gb_cached" ELSE "gb_fetch"]
       /\ lcl' = [lcl EXCEPT ![p].balance = cachedBalance]
  /\ hist' = [hist EXCEPT ![p].fresh = now - balanceCacheTime < TTL]
  /\ balanceCacheMutex' = RUnlock(balanceCacheMutex, p)
  /\ UNCHANGED <<now, cacheVars, positionsCacheMutex, exVars, op, calls, out>>

\* line 57: t.cachedBalance is read again, after RUnlock
BalanceReturnCached(p) ==
  /\ pc[p] = "gb_cached"
  /\ out' = [out EXCEPT ![p] = [ValueOut("value", NilErr) EXCEPT !.balance = cachedBalance,
                                                                 !.hit = TRUE]]
  /\ hist' = [hist EXCEPT ![p].sameAsSeen = (cachedBalance = lcl[p].balance)]
  /\ pc' = [pc EXCEPT ![p] = "idle"]
  /\ lcl' = [lcl EXCEPT ![p] = NoLcl]
  /\ UNCHANGED <<now, cacheVars, lockVars, exVars, op, calls>>

\* lines 63-76
BalanceFetch(p) ==
  /\ pc[p] = "gb_fetch"
  /\ \E r \in BalanceResponses :
       /\ calls' = [calls EXCEPT ![p] =
                      Append(@, CallRec("GetBalance", "", "", "", 0, <<>>, r, ExOk(r)))]
       /\ IF BalanceFetchFailed(r)
            THEN /\ out' = [out EXCEPT ![p] = ValueOut("error", "GetBalanceFailed")]
                 /\ pc' = [pc EXCEPT ![p] = "idle"]
                 /\ lcl' = [lcl EXCEPT ![p] = NoLcl]
            ELSE IF r.Balances.items = <<>>
            THEN /\ out' = [out EXCEPT ![p] = ValueOut("panic", NilErr)]
                 /\ pc' = [pc EXCEPT ![p] = "idle"]
                 /\ lcl' = [lcl EXCEPT ![p] = NoLcl]
            ELSE /\ lcl' = [lcl EXCEPT ![p].balance = BalanceResult(r.Balances.items[1])]
                 /\ pc' = [pc EXCEPT ![p] = "gb_lock"]
                 /\ out' = out
  /\ UNCHANGED <<now, cacheVars, lockVars, exVars, op, hist>>

BalanceLock(p) ==
  /\ pc[p] = "gb_lock"
  /\ CanLock(balanceCacheMutex)
  /\ balanceCacheMutex' = Lock(balanceCacheMutex, p)
  /\ pc' = [pc EXCEPT ![p] = "gb_store"]
  /\ UNCHANGED <<now, cacheVars, positionsCacheMutex, exVars, op, lcl, calls, out, hist>>

\* A refresh that leaves the time of the cache as it was created.
BalanceStoredUntimed(result, t) == [value |-> result, time |-> ZeroTime]

\* lines 80-81: what the refresh leaves in the cache
BalanceStored(result, t) == [value |-> result, time |-> t]

\* lines 80-84
BalanceStore(p) ==
  /\ pc[p] = "gb_store"
  /\ cachedBalance' = BalanceStored(lcl[p].balance, now).value
  /\ balanceCacheTime' = BalanceStored(lcl[p].balance, now).time
  /\ balanceCacheMutex' = Unlock(balanceCacheMutex)
  /\ out' = [out EXCEPT ![p] = [ValueOut("value", NilErr) EXCEPT !.balance = lcl[p].balance]]
  /\ pc' = [pc EXCEPT ![p] = "idle"]
  /\ lcl' = [lcl EXCEPT ![p] = NoLcl]
  /\ hist' = [q \in Procs |->
                IF q = p
                THEN [hist[q] EXCEPT !.stored = /\ cachedBalance' = lcl[p].balance
                                                /\ balanceCacheTime' = now]
                ELSE IF pc[q] = "gb_cached" THEN [hist[q] EXCEPT !.overwritten = TRUE]
                ELSE hist[q]]
  /\ UNCHANGED <<now, cachedPositions, positionsCacheTime, positionsCacheMutex, exVars,
                 op, calls>>

\* ------------------------------------------------------------ GetPositions
\* The leverage the exchange reports for a position of an instrument.
PosLever(inst) == IF inst \in DOMAIN exLever THEN exLever[inst] ELSE 1

\* The answers to a positions query: an error, a refusal, or the positions.
PositionsResponses ==
  {[err |-> TRUE, Code |-> OkCode, Positions |-> <<>>]} \cup
  {[err |-> FALSE, Code |-> c, Positions |-> <<>>] : c \in Codes \ {OkCode}} \cup
  {[err |-> FALSE, Code |-> OkCode,
    Positions |-> [i \in 1..Len(exPositions) |->
                     [InstType |-> exPositions[i].InstType, Pos |-> exPositions[i].Pos,
                      Lever |-> PosLever(exPositions[i].InstID),
                      PosSide |-> exPositions[i].PosSide]]]}

\* line 455: the cached positions may be returned
PositionsCacheValid(cached, cacheTime, t) == cached # <<>> /\ t - cacheTime < TTL

\* line 466: the answer is refused
PositionsFetchFailed(r) == r.err \/ r.Code # OkCode

\* lines 479-489 (the price fields are copied through and not modelled)
PosMap(pos) ==
  [symbol |-> pos.InstType, positionAmt |-> pos.Pos, leverage |-> pos.Lever,
   side |-> pos.PosSide]

\* lines 472-492: a nil slice (the empty list) when nothing is appended
RECURSIVE PositionsResult(_)
PositionsResult(positions) ==
  IF positions = <<>> THEN <<>>
  ELSE IF Head(positions).Pos = 0 THEN PositionsResult(Tail(positions))
  ELSE <<PosMap(Head(positions))>> \o PositionsResult(Tail(positions))

\* GetPositions returns (ps, e) to the method that called it, or to the caller.
PositionsReturn(p, ps, e) ==
  IF lcl[p].cont = "top"
  THEN /\ out' = [out EXCEPT ![p] =
                    [ValueOut(IF e = NilErr THEN "value" ELSE "error", e)
                       EXCEPT !.positions = ps, !.hit = (pc[p] = "gp_cached")]]
       /\ pc' = [pc EXCEPT ![p] = "idle"]
       /\ lcl' = [lcl EXCEPT ![p] = NoLcl]
  ELSE /\ out' = out
       /\ pc' = [pc EXCEPT ![p] = lcl[p].cont]
       /\ lcl' = [lcl EXCEPT ![p].positions = ps, ![p].err = e]

GetPositions(p) ==
  /\ Begin(p, [NoOp EXCEPT !.name = "GetPositions"], "gp_rlock", "top")
  /\ UNCHANGED <<now, cacheVars, lockVars, exVars>>

PositionsRLock(p) ==
  /\ pc[p] = "gp_rlock"
  /\ CanRLock(positionsCacheMutex)
  /\ positionsCacheMutex' = RLock(positionsCacheMutex, p)
  /\ pc' = [pc EXCEPT ![p] = "gp_check"]
  /\ UNCHANGED <<now, cacheVars, balanceCacheMutex, exVars, op, lcl, calls, out, hist>>

\* lines 455-461
PositionsCheck(p) ==
  /\ pc[p] = "gp_check"
  /\ LET valid == PositionsCacheValid(cachedPositions, positionsCacheTime, now) IN
       /\ pc' = [pc EXCEPT ![p] = IF valid THEN "gp_cached" ELSE "gp_fetch"]
       /\ lcl' = [lcl EXCEPT ![p].positions = cachedPositions]
  /\ hist' = [hist EXCEPT ![p].fresh = lcl[p].cont = "top" /\ now - positionsCacheTime < TTL]
  /\ positionsCacheMutex' = RUnlock(positionsCacheMutex, p)
  /\ UNCHANGED <<now, cacheVars, balanceCacheMutex, exVars, op, calls, out>>

\* line 459: t.cachedPositions is read again, after RUnlock
PositionsReturnCached(p) ==
  /\ pc[p] = "gp_cached"
  /\ PositionsReturn(p, cachedPositions, NilErr)
  /\ hist' = [hist EXCEPT ![p].sameAsSeen =
                              lcl[p].cont = "top" /\ cachedPositions = lcl[p].positions]
  /\ UNCHANGED <<now, cacheVars, lockVars, exVars, op, calls>>

\* lines 465-492
PositionsFetch(p) ==
  /\ pc[p] = "gp_fetch"
  /\ \E r \in PositionsResponses :
       /\ calls' = [calls EXCEPT ![p] =
                      Append(@, CallRec("GetPositions", "", "", "", 0, <<>>, r, ExOk(r)))]
       /\ IF PositionsFetchFailed(r)
            THEN PositionsReturn(p, <<>>, "GetPositionsFailed")
            ELSE /\ lcl' = [lcl EXCEPT ![p].positions = PositionsResult(r.Positions)]
                 /\ pc' = [pc EXCEPT ![p] = "gp_lock"]
                 /\ out' = out
  /\ UNCHANGED <<now, cacheVars, lockVars, exVars, op, hist>>

PositionsLock(p) ==
  /\ pc[p] = "gp_lock"
  /\ CanLock(positionsCacheMutex)
  /\ positionsCacheMutex' = Lock(positionsCacheMutex, p)
  /\ pc' = [pc EXCEPT ![p] = "gp_store"]
  /\ UNCHANGED <<now, cacheVars, balanceCacheMutex, exVars, op, lcl, calls, out, hist>>

\* lines 496-497: what the refresh leaves in the cache
PositionsStored(result, t) == [value |-> result, time |-> t]

\* lines 495-500
PositionsStore(p) ==
  /\ pc[p] = "gp_store"
  /\ cachedPositions' = PositionsStored(lcl[p].positions, now).value
  /\ positionsCacheTime' = PositionsStored(lcl[p].positions, now).time
  /\ positionsCacheMutex' = Unlock(positionsCacheMutex)
  /\ PositionsReturn(p, lcl[p].positions, NilErr)
  /\ hist' = [q \in Procs |->
                IF q = p
                THEN [hist[q] EXCEPT !.stored = /\ lcl[p].cont = "top"
                                                /\ cachedPositions' = lcl[p].positions
                                                /\ positionsCacheTime' = now]
                ELSE IF pc[q] = "gp_cached" THEN [hist[q] EXCEPT !.overwritten = TRUE]
                ELSE hist[q]]
  /\ UNCHANGED <<now, cachedBalance, balanceCacheTime, balanceCacheMutex, exVars, op, calls>>

\* ------------------------------------------------------------ CancelAllOrders
AlgoOrders ==
  <<[InstID |-> "BTC-USDT-SWAP", AlgoID |-> 1], [InstID |-> "SWAP", AlgoID |-> 2]>>
OrderListResponses ==
  {[err |-> TRUE, Orders |-> <<>>]} \cup
  {[err |-> FALSE, Orders |-> os] :
     os \in {<<>>, <<AlgoOrders[1]>>, <<AlgoOrders[2]>>, AlgoOrders}}

\* A request that names only the first listed order.
CancelRequestFirst(orders) ==
  [i \in 1..1 |-> [InstID |-> orders[i].InstID, AlgoID |-> orders[i].AlgoID]]

\* lines 512-518: one pair per listed order
CancelRequest(orders) ==
  [i \in 1..Len(orders) |-> [InstID |-> orders[i].InstID, AlgoID |-> orders[i].AlgoID]]

\* line 521
CancelFailed(r) == r.err \/ r.Code # OkCode

\* A return that makes the calling method fail with the error of the cleanup.
CancelReturnStrict(p, e) ==
  IF lcl[p].cont = "top" \/ e # NilErr
  THEN /\ out' = [out EXCEPT ![p] = ValueOut(IF e = NilErr THEN "ok" ELSE "error", e)]
       /\ pc' = [pc EXCEPT ![p] = "idle"]
       /\ lcl' = [lcl EXCEPT ![p] = NoLcl]
  ELSE /\ out' = out
       /\ pc' = [pc EXCEPT ![p] = lcl[p].cont]
       /\ lcl' = [lcl EXCEPT ![p].err = e, ![p].orders = <<>>]

\* CancelAllOrders returns e to the method that called it, or to the caller.
CancelReturn(p, e) ==
  IF lcl[p].cont = "top"
  THEN /\ out' = [out EXCEPT ![p] = ValueOut(IF e = NilErr THEN "ok" ELSE "error", e)]
       /\ pc' = [pc EXCEPT ![p] = "idle"]
       /\ lcl' = [lcl EXCEPT ![p] = NoLcl]
  ELSE /\ out' = out
       /\ pc' = [pc EXCEPT ![p] = lcl[p].cont]
       /\ lcl' = [lcl EXCEPT ![p].err = e, ![p].orders = <<>>]

CancelAllOrders(p) ==
  /\ \E s \in Symbols :
       Begin(p, [NoOp EXCEPT !.name = "CancelAllOrders", !.symbol = s], "ca_list", "top")
  /\ UNCHANGED <<now, cacheVars, lockVars, exVars>>

\* lines 505-511
CancelList(p) ==
  /\ pc[p] = "ca_list"
  /\ \E r \in OrderListResponses :
       /\ calls' = [calls EXCEPT ![p] =
                      Append(@, CallRec("GetOrderList", "", "", "", 0, <<>>, r, ~r.err))]
       /\ IF r.err THEN CancelReturn(p, TransportErr)
          ELSE IF Len(r.Orders) = 0 THEN CancelReturn(p, NilErr)
          ELSE /\ lcl' = [lcl EXCEPT ![p].orders = r.Orders]
               /\ pc' = [pc EXCEPT ![p] = "ca_cancel"]
               /\ out' = out
  /\ UNCHANGED <<now, cacheVars, lockVars, exVars, op, hist>>

\* lines 512-526
CancelBatch(p) ==
  /\ pc[p] = "ca_cancel"
  /\ \E r \in Responses :
       /\ calls' = [calls EXCEPT ![p] =
                      Append(@, CallRec("CancelAlgoOrder", "", "", "", 0,
                                        CancelRequest(lcl[p].orders), r, ExOk(r)))]
       /\ CancelReturn(p, IF CancelFailed(r) THEN "CancelFailed" ELSE NilErr)
  /\ UNCHANGED <<now, cacheVars, lockVars, exVars, op, hist>>

\* ------------------------------------------------------------ FormatQuantity
RECURSIVE Pow10(_)
Pow10(n) == IF n = 0 THEN 1 ELSE 10 * Pow10(n - 1)

DigitChar(d) == <<"0", "1", "2", "3", "4", "5", "6", "7", "8", "9">>[d + 1]

\* The decimal digits of a natural number.
RECURSIVE Digits(_)
Digits(n) == IF n < 10 THEN <<DigitChar(n)>> ELSE Digits(n \div 10) \o <<DigitChar(n % 10)>>

\* n written with exactly w digits (n < 10^w).
RECURSIVE Padded(_, _)
Padded(n, w) == IF w = 0 THEN <<>> ELSE Padded(n \div 10, w - 1) \o <<DigitChar(n % 10)>>

Abs(x) == IF x < 0 THEN 0 - x ELSE x

\* fmt.Sprintf("%.<prec>f", x) for x = v / 10^unit: rounded to prec fractional
\* digits, a tie away from zero.
Sprintf(v, unit, prec) ==
  LET a == Abs(v)
      n == IF prec >= unit THEN a * Pow10(prec - unit)
           ELSE (a + Pow10(unit - prec) \div 2) \div Pow10(unit - prec)
  IN  (IF v < 0 THEN <<"-">> ELSE <<>>)
      \o Digits(n \div Pow10(prec))
      \o (IF prec = 0 THEN <<>> ELSE <<".">> \o Padded(n % Pow10(prec), prec))

\* "%f" prints six fractional digits (line 554).
FloatDigits == 6
LotUnit == FloatDigits

\* calculatePrecision (defined in another file of the package): the digits
\* that follow the point once the trailing zeros are dropped.
RECURSIVE TrimZeros(_)
TrimZeros(s) ==
  IF s # <<>> /\ s[Len(s)] = "0" THEN TrimZeros(SubSeq(s, 1, Len(s) - 1)) ELSE s
DotIndex(s) == IF \E i \in 1..Len(s) : s[i] = "." THEN CHOOSE i \in 1..Len(s) : s[i] = "." ELSE 0
calculatePrecision(stepSize) ==
  LET t == TrimZeros(stepSize) IN
    IF DotIndex(t) = 0 \/ DotIndex(t) = Len(t) THEN 0 ELSE Len(t) - DotIndex(t)

Instruments(s) ==
  { <<>>,
    <<[InstID |-> s, LotSz |-> 1000]>>,
    <<[InstID |-> s, LotSz |-> 1000000]>>,
    <<[InstID |-> "ETH-USDT-SWAP", LotSz |-> 100000]>>,
    <<[InstID |-> "ETH-USDT-SWAP", LotSz |-> 100000], [InstID |-> s, LotSz |-> 10000]>> }
InstrumentResponses(s) ==
  {[err |-> TRUE, Instruments |-> <<>>]} \cup
  {[err |-> FALSE, Instruments |-> l] : l \in Instruments(s)}

\* lines 542-563, on the answer r of GetInstruments
GetSymbolPrecision(r, symbol) ==
  IF r.err THEN [precision |-> 0, err |-> "GetInstrumentsFailed"]
  ELSE IF \E i \in 1..Len(r.Instruments) : r.Instruments[i].InstID = symbol
  THEN LET i == CHOOSE i \in 1..Len(r.Instruments) :
                  /\ r.Instruments[i].InstID = symbol
                  /\ \A j \in 1..(i - 1) : r.Instruments[j].InstID # symbol
       IN [precision |-> calculatePrecision(Sprintf(r.Instruments[i].LotSz, LotUnit, FloatDigits)),
           err |-> NilErr]
  ELSE [precision |-> DefaultPrecision, err |-> NilErr]

\* A formatting that hands the error of the lookup on.
FormatQuantityStrict(r, symbol, quantity) ==
  LET sp == GetSymbolPrecision(r, symbol) IN
    [str |-> Sprintf(quantity, QuantityUnit, FallbackDigits), err |-> sp.err]

\* lines 530-539, on the answer r of GetInstruments
FormatQuantity(r, symbol, quantity) ==
  LET sp == GetSymbolPrecision(r, symbol) IN
    IF sp.err # NilErr
    THEN [str |-> Sprintf(quantity, QuantityUnit, FallbackDigits), err |-> NilErr]
    ELSE [str |-> Sprintf(quantity, QuantityUnit, sp.precision), err |-> NilErr]

\* FormatQuantity as the methods call it: one GetInstruments call.
FormatStep(p, next) ==
  \E r \in InstrumentResponses(op[p].symbol) :
    LET f == FormatQuantity(r, op[p].symbol, lcl[p].quantity) IN
      /\ calls' = [calls EXCEPT ![p] =
                     Append(@, CallRec("GetInstruments", op[p].symbol, "", "", 0, <<>>, r, ~r.err))]
      /\ IF f.err # NilErr
         THEN /\ out' = [out EXCEPT ![p] = ValueOut("error", f.err)]
              /\ pc' = [pc EXCEPT ![p] = "idle"]
              /\ lcl' = [lcl EXCEPT ![p] = NoLcl]
         ELSE /\ out' = out
              /\ pc' = [pc EXCEPT ![p] = next]
              /\ lcl' = [lcl EXCEPT ![p].qstr = f.str, ![p].ferr = f.err]

\* ------------------------------------------------------------ OpenLong, OpenShort
Quantities == {0, PosQty}
OrderSide(name) == IF name = "OpenLong" THEN "buy" ELSE "sell"
OrderPosSide(name) == IF name = "OpenLong" THEN "long" ELSE "short"

PlaceOrderResponses ==
  {[err |-> TRUE, Code |-> OkCode, PlaceOrders |-> <<>>]} \cup
  {[err |-> FALSE, Code |-> c,
    PlaceOrders |-> IF some THEN <<[OrdID |-> 7, SCode |-> c]>> ELSE <<>>] :
     c \in Codes, some \in BOOLEAN}

\* lines 101 and 153: the answer to the leverage call is refused
OpenLeverageFailed(r) == r.err \/ r.Code # LeverageOkCode

\* lines 102 and 154: return nil, err
OpenLeverageError(r) == IF r.err THEN TransportErr ELSE NilErr

\* lines 123 and 175
PlaceOrderFailed(r) == r.err \/ r.Code # OkCode

\* The exchange after a leverage call it carried out.
LeverAfter(r, symbol, leverage) ==
  IF ExOk(r) THEN [exLever EXCEPT ![symbol] = leverage] ELSE exLever

OpenLong(p) ==
  /\ \E s \in Symbols, q \in Quantities, l \in Levers :
       Begin(p, [name |-> "OpenLong", symbol |-> s, quantity |-> q, leverage |-> l,
                 positionSide |-> "", price |-> 0],
             "ca_list", "op_lever")
  /\ UNCHANGED <<now, cacheVars, lockVars, exVars>>

OpenShort(p) ==
  /\ \E s \in Symbols, q \in Quantities, l \in Levers :
       Begin(p, [name |-> "OpenShort", symbol |-> s, quantity |-> q, leverage |-> l,
                 positionSide |-> "", price |-> 0],
             "ca_list", "op_lever")
  /\ UNCHANGED <<now, cacheVars, lockVars, exVars>>

\* lines 94-103 and 146-155
OpenSetLeverage(p) ==
  /\ pc[p] = "op_lever"
  /\ \E r \in Responses :
       /\ calls' = [calls EXCEPT ![p] =
                      Append(@, CallRec("SetLeverage", op[p].symbol, "", "", op[p].leverage,
                                        <<>>, r, ExOk(r)))]
       /\ exLever' = LeverAfter(r, op[p].symbol, op[p].leverage)
       /\ IF OpenLeverageFailed(r)
          THEN /\ out' = [out EXCEPT ![p] =
                            ValueOut(IF OpenLeverageError(r) = NilErr THEN "neither" ELSE "error",
                                     OpenLeverageError(r))]
               /\ pc' = [pc EXCEPT ![p] = "idle"]
               /\ lcl' = [lcl EXCEPT ![p] = NoLcl]
          ELSE /\ out' = out
               /\ pc' = [pc EXCEPT ![p] = "op_format"]
               /\ lcl' = lcl
  /\ hist' = [hist EXCEPT ![p].calledAt = now]
  /\ UNCHANGED <<now, cacheVars, lockVars, exPositions, op>>

\* lines 108-111 and 160-163
OpenFormat(p) ==
  /\ pc[p] = "op_format"
  /\ FormatStep(p, "op_place")
  /\ UNCHANGED <<now, cacheVars, lockVars, exVars, op, hist>>

\* lines 114-136 and 166-188
OpenPlaceOrder(p) ==
  /\ pc[p] = "op_place"
  /\ \E r \in PlaceOrderResponses :
       /\ calls' = [calls EXCEPT ![p] =
                      Append(@, CallRec("PlaceOrder", op[p].symbol, OrderSide(op[p].name),
                                        OrderPosSide(op[p].name), op[p].quantity, <<>>, r, ExOk(r)))]
       /\ out' = [out EXCEPT ![p] =
                    IF PlaceOrderFailed(r) THEN ValueOut("error", "OpenFailed")
                    ELSE IF r.PlaceOrders = <<>> THEN ValueOut("panic", NilErr)
                    ELSE [ValueOut("value", NilErr) EXCEPT !.orderId = r.PlaceOrders[1].OrdID,
                                                         !.symbol = op[p].symbol,
                                                         !.status = r.PlaceOrders[1].SCode]]
  /\ pc' = [pc EXCEPT ![p] = "idle"]
  /\ lcl' = [lcl EXCEPT ![p] = NoLcl]
  /\ UNCHANGED <<now, cacheVars, lockVars, exVars, op, hist>>

\* ------------------------------------------------------------ SetStopLoss, SetTakeProfit
\* The position side as a Position carries it (line 489) and in capitals.
PositionSides == {"long", "short", "LONG", "SHORT"}

\* The trigger price, in units of 10^-PriceUnit, printed with "%.8f"
\* (lines 389-390, 433-434).
PriceUnit == 0
StopPrice == 9
PriceDigits == 8

\* lines 368-374 and 412-418
ProtectSide(name, positionSide) ==
  IF positionSide = "LONG" THEN (IF name = "SetStopLoss" THEN "SELL" ELSE "sell")
  ELSE "buy"
ProtectPosSide(positionSide) == IF positionSide = "LONG" THEN "long" ELSE "short"

\* lines 387-394 and 431-438: the attached conditional order
AttachAlgoOrd(name, price, quantityStr) ==
  LET px == Sprintf(price, PriceUnit, PriceDigits) IN
    IF name = "SetStopLoss"
    THEN [SlTriggerPx |-> px, SlOrdPx |-> px, TpTriggerPx |-> <<>>, TpOrdPx |-> <<>>,
          SlTriggerPxType |-> "last", Sz |-> quantityStr]
    ELSE [SlTriggerPx |-> <<>>, SlOrdPx |-> <<>>, TpTriggerPx |-> px, TpOrdPx |-> px,
          SlTriggerPxType |-> "last", Sz |-> quantityStr]

\* lines 397 and 441
ProtectFailed(r) == r.err \/ r.Code # OkCode

SetStopLoss(p) ==
  /\ \E s \in Symbols, ps \in PositionSides, q \in Quantities :
       Begin(p, [name |-> "SetStopLoss", symbol |-> s, quantity |-> q, leverage |-> 0,
                 positionSide |-> ps, price |-> StopPrice],
             "pr_format", "top")
  /\ UNCHANGED <<now, cacheVars, lockVars, exVars>>

SetTakeProfit(p) ==
  /\ \E s \in Symbols, ps \in PositionSides, q \in Quantities :
       Begin(p, [name |-> "SetTakeProfit", symbol |-> s, quantity |-> q, leverage |-> 0,
                 positionSide |-> ps, price |-> StopPrice],
             "pr_format", "top")
  /\ UNCHANGED <<now, cacheVars, lockVars, exVars>>

\* lines 377-380 and 421-424
ProtectFormat(p) ==
  /\ pc[p] = "pr_format"
  /\ FormatStep(p, "pr_place")
  /\ UNCHANGED <<now, cacheVars, lockVars, exVars, op, hist>>

\* lines 382-404 and 426-448
ProtectPlaceOrder(p) ==
  /\ pc[p] = "pr_place"
  /\ \E r \in PlaceOrderResponses :
       /\ calls' = [calls EXCEPT ![p] =
                      Append(@, [CallRec("PlaceOrder", op[p].symbol,
                                         ProtectSide(op[p].name, op[p].positionSide),
                                         ProtectPosSide(op[p].positionSide),
                                         op[p].quantity, <<>>, r, ExOk(r))
                                 EXCEPT !.attach = <<AttachAlgoOrd(op[p].name, op[p].price,
                                                                   lcl[p].qstr)>>])]
       /\ out' = [out EXCEPT ![p] =
                    IF ProtectFailed(r)
                    THEN ValueOut("error", IF op[p].name = "SetStopLoss"
                                           THEN "SetStopLossFailed" ELSE "SetTakeProfitFailed")
                    ELSE ValueOut("ok", NilErr)]
  /\ pc' = [pc EXCEPT ![p] = "idle"]
  /\ lcl' = [lcl EXCEPT ![p] = NoLcl]
  /\ UNCHANGED <<now, cacheVars, lockVars, exVars, op, hist>>

\* ------------------------------------------------------------ CloseLong, CloseShort
ClosePosSide(name) == IF name = "CloseLong" THEN "long" ELSE "short"

\* A resolution that takes the quantity of a short position as it is stored.
RECURSIVE ResolveQuantityStored(_, _, _)
ResolveQuantityStored(positions, symbol, side) ==
  IF positions = <<>> THEN 0
  ELSE IF Head(positions).symbol = symbol /\ Head(positions).side = side
  THEN Head(positions).positionAmt
  ELSE ResolveQuantityStored(Tail(positions), symbol, side)

\* lines 200-205 and 254-259: the quantity of the first position of the
\* symbol and side, negated for a short one; the quantity is left as it was
\* (zero) when there is none.
RECURSIVE ResolveQuantity(_, _, _)
ResolveQuantity(positions, symbol, side) ==
  IF positions = <<>> THEN 0
  ELSE IF Head(positions).symbol = symbol /\ Head(positions).side = side
  THEN (IF side = "long" THEN Head(positions).positionAmt
        ELSE 0 - Head(positions).positionAmt)
  ELSE ResolveQuantity(Tail(positions), symbol, side)

\* lines 225 and 279
ClosePositionFailed(r) == r.err \/ r.Code # OkCode

\* A close that never reads the positions.
CloseFirstStepBlind(quantity) == "cl_format"

\* lines 194 and 248: the positions are read only for a quantity of zero
CloseFirstStep(quantity) == IF quantity = 0 THEN "gp_rlock" ELSE "cl_format"

CloseLong(p) ==
  /\ \E s \in Symbols, q \in Quantities :
       Begin(p, [name |-> "CloseLong", symbol |-> s, quantity |-> q, leverage |-> 0,
                 positionSide |-> "", price |-> 0],
             CloseFirstStep(q), "cl_resolve")
  /\ UNCHANGED <<now, cacheVars, lockVars, exVars>>

CloseShort(p) ==
  /\ \E s \in Symbols, q \in Quantities :
       Begin(p, [name |-> "CloseShort", symbol |-> s, quantity |-> q, leverage |-> 0,
                 positionSide |-> "", price |-> 0],
             CloseFirstStep(q), "cl_resolve")
  /\ UNCHANGED <<now, cacheVars, lockVars, exVars>>

\* lines 196-209 and 250-263
CloseResolve(p) ==
  /\ pc[p] = "cl_resolve"
  /\ LET q == ResolveQuantity(lcl[p].positions, op[p].symbol, ClosePosSide(op[p].name)) IN
       IF lcl[p].err # NilErr
       THEN /\ out' = [out EXCEPT ![p] = ValueOut("error", lcl[p].err)]
            /\ pc' = [pc EXCEPT ![p] = "idle"]
            /\ lcl' = [lcl EXCEPT ![p] = NoLcl]
       ELSE IF q = 0
       THEN /\ out' = [out EXCEPT ![p] = ValueOut("error", "NoPositionFound")]
            /\ pc' = [pc EXCEPT ![p] = "idle"]
            /\ lcl' = [lcl EXCEPT ![p] = NoLcl]
       ELSE /\ out' = out
            /\ pc' = [pc EXCEPT ![p] = "cl_format"]
            /\ lcl' = [lcl EXCEPT ![p].quantity = q]
  /\ hist' = [hist EXCEPT ![p].snapshot = lcl[p].positions, ![p].readErr = lcl[p].err]
  /\ UNCHANGED <<now, cacheVars, lockVars, exVars, op, calls>>

\* lines 213-216 and 267-270
CloseFormat(p) ==
  /\ pc[p] = "cl_format"
  /\ FormatStep(p, "cl_close")
  /\ UNCHANGED <<now, cacheVars, lockVars, exVars, op, hist>>

\* lines 219-227 and 273-281
CloseCall(p) ==
  /\ pc[p] = "cl_close"
  /\ \E r \in Responses :
       /\ calls' = [calls EXCEPT ![p] =
                      Append(@, CallRec("ClosePosition", op[p].symbol, "",
                                        ClosePosSide(op[p].name), 0, <<>>, r, ExOk(r)))]
       /\ IF ClosePositionFailed(r)
          THEN /\ out' = [out EXCEPT ![p] = ValueOut("error", "CloseFailed")]
               /\ pc' = [pc EXCEPT ![p] = "idle"]
               /\ lcl' = [lcl EXCEPT ![p] = NoLcl]
          ELSE /\ out' = out
               /\ pc' = [pc EXCEPT ![p] = "ca_list"]
               /\ lcl' = [lcl EXCEPT ![p].cont = "cl_finish", ![p].status = r.Code]
  /\ UNCHANGED <<now, cacheVars, lockVars, exVars, op, hist>>

\* lines 238-242 and 290-294
CloseFinish(p) ==
  /\ pc[p] = "cl_finish"
  /\ out' = [out EXCEPT ![p] = [ValueOut("value", NilErr) EXCEPT !.symbol = op[p].symbol,
                                                                 !.status = lcl[p].status]]
  /\ pc' = [pc EXCEPT ![p] = "idle"]
  /\ lcl' = [lcl EXCEPT ![p] = NoLcl]
  /\ UNCHANGED <<now, cacheVars, lockVars, exVars, op, calls, hist>>

\* ------------------------------------------------------------ SetLeverage
\* lines 300-311: the leverage of the first position of the symbol, 0 when
\* the positions could not be read or hold none
RECURSIVE CurrentLeverage(_, _, _)
CurrentLeverage(positions, err, symbol) ==
  IF err # NilErr \/ positions = <<>> THEN 0
  ELSE IF Head(positions).symbol = symbol THEN Head(positions).leverage
  ELSE CurrentLeverage(Tail(positions), err, symbol)

\* A test that takes a leverage of 0 for a match too.
LeverageMatchesZero(currentLeverage, leverage) == currentLeverage = leverage

\* line 314
LeverageMatches(currentLeverage, leverage) ==
  currentLeverage = leverage /\ currentLeverage > 0

\* line 326
SetLeverageFailed(r) == r.err \/ r.Code # OkCode

SetLeverage(p) ==
  /\ \E s \in Symbols, l \in Levers :
       Begin(p, [name |-> "SetLeverage", symbol |-> s, quantity |-> 0, leverage |-> l,
                 positionSide |-> "", price |-> 0],
             "gp_rlock", "sl_decide")
  /\ UNCHANGED <<now, cacheVars, lockVars, exVars>>

\* lines 300-317
LeverageDecide(p) ==
  /\ pc[p] = "sl_decide"
  /\ IF LeverageMatches(CurrentLeverage(lcl[p].positions, lcl[p].err, op[p].symbol),
                        op[p].leverage)
     THEN /\ out' = [out EXCEPT ![p] = ValueOut("ok", NilErr)]
          /\ pc' = [pc EXCEPT ![p] = "idle"]
          /\ lcl' = [lcl EXCEPT ![p] = NoLcl]
     ELSE /\ out' = out
          /\ pc' = [pc EXCEPT ![p] = "sl_call"]
          /\ lcl' = lcl
  /\ hist' = [hist EXCEPT ![p].snapshot = lcl[p].positions, ![p].readErr = lcl[p].err]
  /\ UNCHANGED <<now, cacheVars, lockVars, exVars, op, calls>>

\* lines 320-334
LeverageCall(p) ==
  /\ pc[p] = "sl_call"
  /\ \E r \in Responses :
       /\ calls' = [calls EXCEPT ![p] =
                      Append(@, CallRec("SetLeverage", op[p].symbol, "", "", op[p].leverage,
                                        <<>>, r, ExOk(r)))]
       /\ exLever' = LeverAfter(r, op[p].symbol, op[p].leverage)
       /\ IF SetLeverageFailed(r)
          THEN /\ out' = [out EXCEPT ![p] = ValueOut("error", "SetLeverageFailed")]
               /\ pc' = [pc EXCEPT ![p] = "idle"]
               /\ lcl' = [lcl EXCEPT ![p] = NoLcl]
               /\ hist' = [hist EXCEPT ![p].calledAt = now]
          ELSE /\ out' = out
               /\ pc' = [pc EXCEPT ![p] = "sl_sleep"]
               /\ lcl' = [lcl EXCEPT ![p].wakeAt = now + Cooldown]
               /\ hist' = [hist EXCEPT ![p].sleeps = @ + 1, ![p].calledAt = now]
  /\ UNCHANGED <<now, cacheVars, lockVars, exPositions, op>>

\* A return that drops the cached positions after the change of leverage.
LeverageWakeInvalidating(p) ==
  /\ pc[p] = "sl_sleep"
  /\ now >= lcl[p].wakeAt
  /\ out' = [out EXCEPT ![p] = ValueOut("ok", NilErr)]
  /\ pc' = [pc EXCEPT ![p] = "idle"]
  /\ lcl' = [lcl EXCEPT ![p] = NoLcl]
  /\ cachedPositions' = <<>>
  /\ positionsCacheTime' = ZeroTime
  /\ UNCHANGED <<now, cachedBalance, balanceCacheTime, lockVars, exVars, op, calls, hist>>

\* lines 334-336: time.Sleep has returned
LeverageWake(p) ==
  /\ pc[p] = "sl_sleep"
  /\ now >= lcl[p].wakeAt
  /\ out' = [out EXCEPT ![p] = ValueOut("ok", NilErr)]
  /\ pc' = [pc EXCEPT ![p] = "idle"]
  /\ lcl' = [lcl EXCEPT ![p] = NoLcl]
  /\ UNCHANGED <<now, cacheVars, lockVars, exVars, op, calls, hist>>

\* ------------------------------------------------------------ specifications
GetBalanceStep(p) ==
  \/ BalanceRLock(p) \/ BalanceCheck(p) \/ BalanceReturnCached(p)
  \/ BalanceFetch(p) \/ BalanceLock(p) \/ BalanceStore(p)

GetPositionsStep(p) ==
  \/ PositionsRLock(p) \/ PositionsCheck(p) \/ PositionsReturnCached(p)
  \/ PositionsFetch(p) \/ PositionsLock(p) \/ PositionsStore(p)

CancelStep(p) == CancelList(p) \/ CancelBatch(p)

OpenStep(p) == OpenSetLeverage(p) \/ OpenFormat(p) \/ OpenPlaceOrder(p)
ProtectStep(p) == ProtectFormat(p) \/ ProtectPlaceOrder(p)

CloseStep(p) == CloseResolve(p) \/ CloseFormat(p) \/ CloseCall(p) \/ CloseFinish(p)

LeverageStep(p) == LeverageDecide(p) \/ LeverageCall(p) \/ LeverageWake(p)

\* The gateway with one caller.
Next ==
  \/ Tick
  \/ GetBalance(1) \/ GetBalanceStep(1)
  \/ GetPositions(1) \/ GetPositionsStep(1)
  \/ CancelAllOrders(1) \/ CancelStep(1)
  \/ OpenLong(1) \/ OpenShort(1) \/ OpenStep(1)
  \/ CloseLong(1) \/ CloseShort(1) \/ CloseStep(1)
  \/ SetLeverage(1) \/ LeverageStep(1)
  \/ SetStopLoss(1) \/ SetTakeProfit(1) \/ ProtectStep(1)

Spec == Init /\ [][Next]_vars

\* Two callers of the cached getters, running concurrently.
InitCache == Init /\ Len(exPositions) <= 1
NextCache ==
  \/ Tick
  \/ \E p \in Procs : \/ GetBalance(p) \/ GetBalanceStep(p)
                      \/ GetPositions(p) \/ GetPositionsStep(p)
SpecCache == InitCache /\ [][NextCache]_vars

\* One caller opening positions.
InitOpen == Init /\ exPositions = <<>>
NextOpen == OpenLong(1) \/ OpenShort(1) \/ OpenStep(1) \/ CancelStep(1)
SpecOpen == InitOpen /\ [][NextOpen]_vars

\* One caller closing positions.
NextClose ==
  \/ Tick
  \/ CloseLong(1) \/ CloseShort(1) \/ CloseStep(1) \/ GetPositionsStep(1) \/ CancelStep(1)
SpecClose == Init /\ [][NextClose]_vars

\* Two callers cancelling orders.
NextCancel == \E p \in Procs : CancelAllOrders(p) \/ CancelStep(p)
SpecCancel == InitOpen /\ [][NextCancel]_vars

\* One caller that closes positions, sets the leverage, cancels orders and
\* reads the positions of an account with one long position.
InitFrame ==
  /\ Init
  /\ exPositions = <<[InstType |-> "SWAP", InstID |-> "BTC-USDT-SWAP", Pos |-> PosQty,
                      PosSide |-> "long"]>>
NextFrame ==
  \/ Tick
  \/ GetPositions(1) \/ GetPositionsStep(1)
  \/ SetLeverage(1) \/ LeverageStep(1)
  \/ CloseLong(1) \/ CloseShort(1) \/ CloseStep(1)
  \/ CancelAllOrders(1) \/ CancelStep(1)
SpecFrame == InitFrame /\ [][NextFrame]_vars

\* One caller attaching stop-loss and take-profit orders.
NextProtect == SetStopLoss(1) \/ SetTakeProfit(1) \/ ProtectStep(1)
SpecProtect == InitOpen /\ [][NextProtect]_vars

\* One caller setting the leverage.
NextLeverage ==
  \/ Tick
  \/ SetLeverage(1) \/ LeverageStep(1) \/ GetPositionsStep(1)
InitLeverage == Init /\ Len(exPositions) <= 1
SpecLeverage == InitLeverage /\ [][NextLeverage]_vars

\* ------------------------------------------------------------ properties
\* The method of caller p has returned.
Returned(p) == pc[p] = "idle" /\ out[p].kind # "none"

CachedGetters == {"GetBalance", "GetPositions"}
LastCall(p) == calls[p][Len(calls[p])]

\* C1: a read of a cache made less than TTL after a refresh of that cache,
\* with no other refresh in between, issues no exchange call and returns
\* exactly the value that refresh stored.
C1_ReadWithinTTLIsAHit ==
  \A p \in Procs :
    (Returned(p) /\ op[p].name \in CachedGetters
       /\ hist[p].fresh /\ ~hist[p].overwritten)
    => /\ calls[p] = <<>>
       /\ out[p].kind = "value"
       /\ out[p].hit
       /\ hist[p].sameAsSeen

\* What C2 expects a refresh to return for the answer a of the exchange.
ExpectedBalance(a) ==
  [nil |-> FALSE,
   totalWalletBalance |-> ParseFloat(a.Balances.items[1].TotalEq),
   availableBalance |-> ParseFloat(a.Balances.items[1].AvailEq),
   totalUnrealizedProfit |-> ParseFloat(a.Balances.items[1].Upl)]
HasQuantity(pos) == pos.Pos # 0
ExpectedPositions(a) ==
  LET held == SelectSeq(a.Positions, HasQuantity) IN
    [i \in 1..Len(held) |->
       [symbol |-> held[i].InstType, positionAmt |-> held[i].Pos,
        leverage |-> held[i].Lever, side |-> held[i].PosSide]]

\* C2: a GetBalance/GetPositions call that does not return the cached value
\* issues exactly one exchange call, the fetch, whatever other callers do;
\* when it returns a value, the cache held that value with the time of the
\* store right after the store, and the value is the one built from the
\* answer.
C2_OneFetchPerMiss ==
  \A p \in Procs :
    (Returned(p) /\ op[p].name \in CachedGetters /\ ~out[p].hit)
    => /\ Len(calls[p]) = 1
       /\ calls[p][1].api = op[p].name
       /\ out[p].kind = "value" =>
            /\ hist[p].stored
            /\ op[p].name = "GetBalance" => out[p].balance = ExpectedBalance(calls[p][1].ans)
            /\ op[p].name = "GetPositions" =>
                 /\ Len(out[p].positions) = Len(ExpectedPositions(calls[p][1].ans))
                 /\ \A i \in 1..Len(out[p].positions) :
                      out[p].positions[i] = ExpectedPositions(calls[p][1].ans)[i]

\* C2 witness: a caller has refreshed the balance and returned it while the
\* other caller, which missed too, has fetched and waits to store.
C2_Witness ==
  \E p \in Procs, q \in Procs :
    /\ p # q
    /\ Returned(p) /\ op[p].name = "GetBalance" /\ ~out[p].hit /\ out[p].kind = "value"
    /\ pc[q] = "gb_lock" /\ Len(calls[q]) = 1

\* The answer a to the fetch of a getter is a failure: a transport error, a
\* status code other than success, or no list of accounts.
AnswerRefuses(name, a) ==
  \/ a.err
  \/ a.Code # OkCode
  \/ name = "GetBalance" /\ a.Balances.nil

\* C3: a GetBalance/GetPositions call whose fetch is answered with a failure
\* returns an error and no value and leaves both caches as they were; and a
\* check never leads to returning an entry that is TTL old or older.
C3_RefreshFailureIsolated ==
  [][\A p \in Procs :
       /\ (/\ pc[p] \in {"gb_fetch", "gp_fetch"}
           /\ op[p].name \in CachedGetters
           /\ Len(calls'[p]) = Len(calls[p]) + 1
           /\ AnswerRefuses(op[p].name, calls'[p][Len(calls'[p])].ans))
          => /\ pc'[p] = "idle"
             /\ out'[p].kind = "error"
             /\ out'[p].balance = NilBalance
             /\ out'[p].positions = <<>>
             /\ cacheVars' = cacheVars
       /\ (pc[p] = "gb_check" /\ pc'[p] = "gb_cached") => now - balanceCacheTime < TTL
       /\ (pc[p] = "gp_check" /\ pc'[p] = "gp_cached") => now - positionsCacheTime < TTL
    ]_vars

OpenMethods == {"OpenLong", "OpenShort"}
CloseMethods == {"CloseLong", "CloseShort"}
CallsOf(p, api) == {i \in 1..Len(calls[p]) : calls[p][i].api = api}

\* C4: while the account holds a position of the instrument, a SetLeverage
\* call for a positive leverage that follows a completed SetLeverage call of
\* the same caller with the same symbol and leverage, and that could read
\* the positions, is a no-op: it issues no leverage-change call and waits
\* for no cooldown, so that both calls together made at most one change and
\* one wait.
C4_SecondCallIsNoOp ==
  \A p \in Procs :
    (Returned(p) /\ op[p].name = "SetLeverage" /\ hist[p].prev.same
       /\ op[p].leverage > 0 /\ hist[p].readErr = NilErr
       /\ \E i \in 1..Len(exPositions) :
            exPositions[i].InstID = op[p].symbol /\ exPositions[i].Pos # 0)
    => /\ CallsOf(p, "SetLeverage") = {}
       /\ hist[p].sleeps = 0
       /\ hist[p].prev.changes <= 1
       /\ hist[p].prev.sleeps <= 1

\* C5: a method that has returned has returned either a value or an error,
\* never neither of them and never by a crash.
C5_ValueOrError ==
  \A p \in Procs :
    (Returned(p) /\ op[p].name \in CachedGetters \cup OpenMethods \cup CloseMethods)
    => out[p].kind \in {"value", "error"}

\* C6: OpenLong/OpenShort all of whose exchange calls were answered with the
\* success code returns a value with the order's identifier, the symbol and
\* the status code, and has placed exactly one order: buy/long for OpenLong,
\* sell/short for OpenShort, with the quantity as it was given.
C6_OpenSucceeds ==
  \A p \in Procs :
    (Returned(p) /\ op[p].name \in OpenMethods
       /\ \A i \in 1..Len(calls[p]) : calls[p][i].ok)
    => /\ out[p].kind = "value"
       /\ out[p].symbol = op[p].symbol
       /\ out[p].status = OkCode
       /\ Cardinality(CallsOf(p, "PlaceOrder")) = 1
       /\ \A i \in CallsOf(p, "PlaceOrder") :
            /\ calls[p][i].InstID = op[p].symbol
            /\ calls[p][i].Side = (IF op[p].name = "OpenLong" THEN "buy" ELSE "sell")
            /\ calls[p][i].PosSide = (IF op[p].name = "OpenLong" THEN "long" ELSE "short")
            /\ calls[p][i].num = op[p].quantity
            /\ calls[p][i].ans.PlaceOrders # <<>>
            /\ out[p].orderId = calls[p][i].ans.PlaceOrders[1].OrdID

\* C7: OpenLong/OpenShort whose leverage change the exchange carried out and
\* which placed no order successfully returns an error; it made one leverage
\* call and at most one order call, and the leverage of the symbol on the
\* exchange is the one it set.
C7_PartialFailureIsAnError ==
  \A p \in Procs :
    (Returned(p) /\ op[p].name \in OpenMethods
       /\ (\E i \in CallsOf(p, "SetLeverage") : calls[p][i].ok)
       /\ ~(\E i \in CallsOf(p, "PlaceOrder") : calls[p][i].ok))
    => /\ out[p].kind = "error"
       /\ Cardinality(CallsOf(p, "SetLeverage")) = 1
       /\ Cardinality(CallsOf(p, "PlaceOrder")) <= 1
       /\ exLever[op[p].symbol] = op[p].leverage

\* The side a close method asks for.
RequestedSide(name) == IF name = "CloseLong" THEN "long" ELSE "short"
\* The entries of the snapshot ps of the symbol and side of caller p's close.
Matches(p, ps) ==
  {i \in 1..Len(ps) : ps[i].symbol = op[p].symbol /\ ps[i].side = RequestedSide(op[p].name)}
\* The entry's quantity carries the sign of its side: a long one is stored
\* positive, a short one negative.
SignOfSide(e) == IF e.side = "long" THEN e.positionAmt > 0 ELSE e.positionAmt < 0

C9_NoPositionNoCall ==
  \A p \in Procs :
    (Returned(p) /\ op[p].name \in CloseMethods /\ op[p].quantity = 0
       /\ (hist[p].readErr # NilErr \/ Matches(p, hist[p].snapshot) = {}))
    => /\ out[p].kind = "error"
       /\ \A i \in 1..Len(calls[p]) :
            calls[p][i].api \notin {"ClosePosition", "PlaceOrder", "CancelAlgoOrder",
                                    "GetOrderList"}

\* C9 witness: CloseLong with quantity 0 has read, from the exchange, a
\* snapshot that holds a position but none of the requested symbol and side,
\* and has returned.
C9_Witness ==
  \E p \in Procs :
    /\ Returned(p) /\ op[p].name = "CloseLong" /\ op[p].quantity = 0
    /\ hist[p].readErr = NilErr
    /\ hist[p].snapshot # <<>>
    /\ Matches(p, hist[p].snapshot) = {}
    /\ CallsOf(p, "GetPositions") # {}

\* The digits that follow the point of a formatted quantity.
FractionDigits(str) == IF DotIndex(str) = 0 THEN 0 ELSE Len(str) - DotIndex(str)
\* The lookup answered with a has failed or names no instrument of the symbol.
LookupFails(a, symbol) ==
  a.err \/ \A i \in 1..Len(a.Instruments) : a.Instruments[i].InstID # symbol

\* C10: no method ends at the formatting of the quantity; after it, the
\* formatting has returned no error, and when the lookup of the instrument
\* failed or found no instrument of the symbol the formatted quantity has
\* exactly 3 fractional digits.
C10_FormatNeverFails ==
  \A p \in Procs :
    /\ (Returned(p) /\ calls[p] # <<>>) => LastCall(p).api # "GetInstruments"
    /\ pc[p] \in {"op_place", "cl_close"} =>
         /\ LastCall(p).api = "GetInstruments"
         /\ lcl[p].ferr = NilErr
         /\ LookupFails(LastCall(p).ans, op[p].symbol) =>
              FractionDigits(lcl[p].qstr) = 3

\* C10 witness: the lookup of a close failed with a transport error and the
\* quantity of the position, 1.2346, was formatted as 1.235.
C10_Witness ==
  \E p \in Procs :
    /\ pc[p] = "cl_close"
    /\ LastCall(p).ans.err
    /\ lcl[p].quantity = 12346
    /\ lcl[p].qstr = <<"1", ".", "2", "3", "5">>

\* C11: CancelAllOrders first lists the orders; it returns an error when
\* the listing fails and nil, without a cancel call, when the list is empty;
\* otherwise it issues exactly one batch cancel with one pair (instrument,
\* algo id) per listed order, in their order, and returns an error exactly
\* when that call fails or is answered with a code other than success.
C11_ListThenOneBatchCancel ==
  \A p \in Procs :
    (Returned(p) /\ op[p].name = "CancelAllOrders")
    => /\ Len(calls[p]) >= 1
       /\ calls[p][1].api = "GetOrderList"
       /\ LET listed == calls[p][1].ans IN
            /\ listed.err => (Len(calls[p]) = 1 /\ out[p].kind = "error")
            /\ (~listed.err /\ listed.Orders = <<>>)
                 => (Len(calls[p]) = 1 /\ out[p].kind = "ok")
            /\ (~listed.err /\ listed.Orders # <<>>)
                 => /\ Len(calls[p]) = 2
                    /\ calls[p][2].api = "CancelAlgoOrder"
                    /\ Len(calls[p][2].batch) = Len(listed.Orders)
                    /\ \A i \in 1..Len(listed.Orders) :
                         /\ calls[p][2].batch[i].InstID = listed.Orders[i].InstID
                         /\ calls[p][2].batch[i].AlgoID = listed.Orders[i].AlgoID
                    /\ out[p].kind = (IF calls[p][2].ans.err \/ calls[p][2].ans.Code # OkCode
                                      THEN "error" ELSE "ok")

\* C11 witness: two orders were listed and cancelled in one batch, and the
\* method returned nil.
C11_Witness ==
  \E p \in Procs :
    /\ Returned(p) /\ op[p].name = "CancelAllOrders" /\ out[p].kind = "ok"
    /\ Len(calls[p]) = 2
    /\ Len(calls[p][2].batch) = 2

\* The leverage SetLeverage observes for caller p's symbol: that of the
\* first entry of the snapshot with the symbol, 0 without such an entry or
\* without a snapshot.
ObservedLeverage(p) ==
  LET ps == hist[p].snapshot
      found == {i \in 1..Len(ps) : ps[i].symbol = op[p].symbol}
  IN  IF hist[p].readErr # NilErr \/ found = {} THEN 0
      ELSE ps[CHOOSE i \in found : \A j \in found : i <= j].leverage

\* What C12 says of a SetLeverage call of caller p that has returned.
LeverageOutcome(p) ==
  LET changes == CallsOf(p, "SetLeverage") IN
    IF ObservedLeverage(p) = op[p].leverage /\ op[p].leverage > 0
    THEN /\ changes = {}
         /\ hist[p].sleeps = 0
         /\ out[p].kind = "ok"
    ELSE /\ changes = {Len(calls[p])}
         /\ LastCall(p).InstID = op[p].symbol
         /\ LastCall(p).num = op[p].leverage
         /\ LastCall(p).MgnMode = "cross"
         /\ IF LastCall(p).ans.err \/ LastCall(p).ans.Code # OkCode
            THEN out[p].kind = "error" /\ hist[p].sleeps = 0
            ELSE out[p].kind = "ok" /\ hist[p].sleeps = 1

\* C12: a SetLeverage call whose observed leverage equals the desired one
\* and is > 0 issues no change call and waits for no cooldown; in every
\* other case it issues exactly one change call, in cross-margin mode, as
\* its last call: when that call fails it returns an error without a
\* cooldown, when it succeeds it returns nil after one cooldown, not sooner
\* than 5 seconds after the call.
C12_CooldownIffChanged ==
  [][\A p \in Procs :
       /\ (op[p].name = "SetLeverage" /\ pc[p] # "idle" /\ pc'[p] = "idle")
            => LeverageOutcome(p)'
       /\ (pc[p] = "sl_sleep" /\ pc'[p] = "idle")
            => now - hist[p].calledAt >= 5
    ]_vars

\* C12 witness: a SetLeverage call has changed the leverage, waited and
\* returned nil.
C12_Witness ==
  \E p \in Procs :
    /\ Returned(p) /\ op[p].name = "SetLeverage" /\ out[p].kind = "ok"
    /\ hist[p].sleeps = 1
    /\ CallsOf(p, "SetLeverage") # {}
    /\ now - hist[p].calledAt >= 5

\* C13: OpenLong/OpenShort that has issued its order after a leverage-change
\* call of the same operation has waited for the cooldown in between.
C13_OrderAfterCooldown ==
  \A p \in Procs :
    (Returned(p) /\ op[p].name \in OpenMethods
       /\ \E i \in CallsOf(p, "SetLeverage"), j \in CallsOf(p, "PlaceOrder") : i < j)
    => /\ hist[p].sleeps >= 1
       /\ now - hist[p].calledAt >= 5

\* C14: OpenLong/OpenShort whose leverage change failed (a transport error
\* or a code other than success) has issued no order and returns an error;
\* CloseLong/CloseShort whose close-position call failed has listed and
\* cancelled no orders afterwards and returns an error.
C14_HardStepAborts ==
  \A p \in Procs :
    /\ (Returned(p) /\ op[p].name \in OpenMethods
          /\ \E i \in CallsOf(p, "SetLeverage") : ~calls[p][i].ok)
       => /\ CallsOf(p, "PlaceOrder") = {}
          /\ out[p].kind = "error"
    /\ (Returned(p) /\ op[p].name \in CloseMethods
          /\ \E i \in CallsOf(p, "ClosePosition") : ~calls[p][i].ok)
       => /\ LastCall(p).api = "ClosePosition"
          /\ out[p].kind = "error"

CleanupApis == {"GetOrderList", "CancelAlgoOrder"}
CleanupCalls(p) == {i \in 1..Len(calls[p]) : calls[p][i].api \in CleanupApis}
\* A call of the cleanup of caller p has failed.
CleanupFailed(p) ==
  \E i \in CleanupCalls(p) : calls[p][i].ans.err \/ ~calls[p][i].ok

\* C15: OpenLong/OpenShort list the orders first and issue their leverage
\* call whatever the cleanup gave, every call of the cleanup coming before
\* it, and go on to the order exactly when the leverage answer is accepted;
\* CloseLong/CloseShort list and cancel orders only after a close-position
\* call that succeeded, and then return their value whatever the cleanup
\* gave.
C15_CleanupIsBestEffort ==
  \A p \in Procs :
    /\ (Returned(p) /\ op[p].name \in OpenMethods)
       => /\ calls[p][1].api = "GetOrderList"
          /\ Cardinality(CallsOf(p, "SetLeverage")) = 1
          /\ \A i \in CleanupCalls(p), j \in CallsOf(p, "SetLeverage") : i < j
          /\ \A j \in CallsOf(p, "SetLeverage") :
               (CallsOf(p, "PlaceOrder") # {})
                 <=> (~calls[p][j].ans.err /\ calls[p][j].ans.Code = LeverageOkCode)
    /\ (Returned(p) /\ op[p].name \in CloseMethods)
       => /\ \A i \in CleanupCalls(p) :
               \E j \in CallsOf(p, "ClosePosition") : j < i /\ calls[p][j].ok
          /\ (\E j \in CallsOf(p, "ClosePosition") : calls[p][j].ok)
               => /\ out[p].kind = "value"
                  /\ out[p].symbol = op[p].symbol
                  /\ out[p].status = OkCode
                  /\ CallsOf(p, "GetOrderList") # {}

\* C15 witness: a close has succeeded, the batch cancel after it was
\* refused, and the close returned its value.
C15_Witness ==
  \E p \in Procs :
    /\ Returned(p) /\ op[p].name = "CloseShort" /\ out[p].kind = "value"
    /\ LastCall(p).api = "CancelAlgoOrder"
    /\ CleanupFailed(p)

\* C16: the value a cache-hit reader returns is the value it found in the
\* cache when, holding the shared lock, it checked the time of the cache
\* against the TTL.
C16_HitReturnsCheckedEntry ==
  \A p \in Procs :
    (Returned(p) /\ op[p].name \in CachedGetters /\ out[p].hit)
    => hist[p].sameAsSeen

\* Caller p holds the mutex m, shared or exclusive.
Holds(m, p) == p \in m.readers \/ m.writer = p

\* C17: no caller holds both mutexes; a caller holds a mutex only at the
\* check and at the store of its cache, hence never where an exchange call
\* or the cooldown is in progress; a caller that waits for a mutex can take
\* it or waits for a holder that can release it at once, and a reader waits
\* for no caller that is fetching.
C17_LocksApartAndShort ==
  \A p \in Procs :
    /\ ~(Holds(balanceCacheMutex, p) /\ Holds(positionsCacheMutex, p))
    /\ Holds(balanceCacheMutex, p) => pc[p] \in {"gb_check", "gb_store"}
    /\ Holds(positionsCacheMutex, p) => pc[p] \in {"gp_check", "gp_store"}
    /\ pc[p] \in {"gb_rlock", "gb_lock"} =>
         \/ ENABLED (BalanceRLock(p) \/ BalanceLock(p))
         \/ \E q \in Procs \ {p} :
              /\ Holds(balanceCacheMutex, q)
              /\ ENABLED (BalanceCheck(q) \/ BalanceStore(q))
    /\ pc[p] \in {"gp_rlock", "gp_lock"} =>
         \/ ENABLED (PositionsRLock(p) \/ PositionsLock(p))
         \/ \E q \in Procs \ {p} :
              /\ Holds(positionsCacheMutex, q)
              /\ ENABLED (PositionsCheck(q) \/ PositionsStore(q))
    /\ (pc[p] = "gb_rlock" /\ \A q \in Procs \ {p} : pc[q] # "gb_store")
         => ENABLED BalanceRLock(p)
    /\ (pc[p] = "gp_rlock" /\ \A q \in Procs \ {p} : pc[q] # "gp_store")
         => ENABLED PositionsRLock(p)

\* C17 witness: one caller's balance fetch is in progress while the other
\* caller holds the shared lock of the balance cache.
C17_Witness ==
  \E p \in Procs, q \in Procs :
    /\ pc[p] = "gb_fetch"
    /\ q \in balanceCacheMutex.readers
    /\ ~Holds(balanceCacheMutex, p) /\ ~Holds(positionsCacheMutex, p)

MutationApis == {"SetLeverage", "PlaceOrder", "ClosePosition", "CancelAlgoOrder"}

\* C18: a step changes the balance entry only as the store of GetBalance
\* and the positions entry only as the store of GetPositions, each leaving
\* the other entry alone; a step that issues a leverage change, an order, a
\* close-position or a cancellation, and the steps by which such a method
\* returns, leave both values and both times as they were.
C18_OnlyRefreshWritesCache ==
  [][/\ <<cachedBalance, balanceCacheTime>>' # <<cachedBalance, balanceCacheTime>>
          => \E p \in Procs : /\ pc[p] = "gb_store" /\ op[p].name = "GetBalance"
                              /\ pc'[p] = "idle" /\ out'[p].kind = "value"
                              /\ UNCHANGED <<cachedPositions, positionsCacheTime>>
     /\ <<cachedPositions, positionsCacheTime>>' # <<cachedPositions, positionsCacheTime>>
          => \E p \in Procs : /\ pc[p] = "gp_store"
                              /\ Len(calls[p]) >= 1 /\ LastCall(p).api = "GetPositions"
                              /\ UNCHANGED <<cachedBalance, balanceCacheTime>>
     /\ \A p \in Procs :
          (\/ /\ Len(calls'[p]) = Len(calls[p]) + 1
              /\ calls'[p][Len(calls'[p])].api \in MutationApis
           \/ /\ pc[p] # "idle" /\ pc'[p] = "idle"
              /\ op[p].name \notin CachedGetters)
          => cacheVars' = cacheVars
    ]_vars

\* C18 witness: after a leverage change that the exchange carried out, a
\* read of the positions within the TTL has returned the cached snapshot,
\* which still holds the leverage from before the change.
C18_Witness ==
  \E p \in Procs :
    /\ Returned(p) /\ op[p].name = "GetPositions" /\ out[p].hit
    /\ Len(out[p].positions) = 1
    /\ out[p].positions[1].leverage # exLever["BTC-USDT-SWAP"]
    /\ now - positionsCacheTime < 15

\* C19: every pair of a batch-cancel request issued for a symbol, by
\* CancelAllOrders itself or as the cleanup step of an open or a close, names
\* an order of that symbol.
C19_CancelsOnlyTheSymbol ==
  \A p \in Procs :
    \A i \in CallsOf(p, "CancelAlgoOrder") :
      \A j \in 1..Len(calls[p][i].batch) :
        calls[p][i].batch[j].InstID = op[p].symbol

\* C20: SetStopLoss and SetTakeProfit, called with the side of a position
\* (long or short), place exactly one order, with side sell and position
\* side long for a long position and side buy and position side short for a
\* short one, and return an error exactly when the order is refused.
C20_ClosingDirection ==
  \A p \in Procs :
    (/\ Returned(p) /\ op[p].name \in {"SetStopLoss", "SetTakeProfit"}
     /\ op[p].positionSide \in {"long", "short"})
    => LET placed == CallsOf(p, "PlaceOrder") IN
         /\ Cardinality(placed) = 1
         /\ \A i \in placed :
              /\ calls[p][i].Side = (IF op[p].positionSide = "long" THEN "sell" ELSE "buy")
              /\ calls[p][i].PosSide = op[p].positionSide
              /\ out[p].kind = (IF calls[p][i].ans.err \/ calls[p][i].ans.Code # OkCode
                                THEN "error" ELSE "ok")

====
